---- MODULE Spec2Model ----
(***************************************************************************)
(* Scratch-file lifecycle of the QuickSideTool PDF service (src/app.py).   *)
(*                                                                         *)
(* The service is one asyncio event loop.  A handler and the cleanup task  *)
(* are coroutines of that loop, so the code between two `await`s runs      *)
(* without interleaving: each action below is one such stretch of code.    *)
(* Time is counted in minutes.  A file of the scratch directory is kept    *)
(* with its age, datetime.now() - getctime(file), which is what the        *)
(* cleanup task compares.                                                  *)
(***************************************************************************)
EXTENDS Integers, FiniteSets, Sequences, TLC

\* ---------------------------------------------------------------- bounds
NumReqs == 2          \* requests served during one run
MaxAge == 22          \* time stops advancing once a file is this old
MaxLogged == 2        \* the count of logged cleanup errors saturates here
TickMinutes == 1      \* minutes between two looks at the clock

\* ------------------------------------------------------ program constants
CLEANUP_INTERVAL == 10    \* app.py:48, 600 seconds, in minutes
RETENTION == 10           \* app.py:60, timedelta(minutes=10)

Reqs == 1..NumReqs
Unbound == 0              \* a local variable that was never assigned
Paths == 1..(2 * NumReqs)

LocalEndpoints == {"unlock_pdf", "lock_pdf", "remove_pdf_links"}
\* adobe_convert_pdf_to_word, adobe_convert_pdf_to_excel, adobe_compress_pdf
\* and adobe_optimize_pdf are the same handler but for the service method,
\* the file extension and the wording of the messages: "adobe_file" stands
\* for any of the four
AdobeFileEndpoints == {"adobe_file"}
Endpoints == LocalEndpoints \cup AdobeFileEndpoints \cup {"extract_text"}

VARIABLES
    dir,          \* TEMP_DIR: file name -> age in minutes
    dirExists,    \* TEMP_DIR is still there
    pc,           \* per request: position of its handler
    endpoint,     \* per request: the endpoint it called
    input_path,   \* per request: local variable input_path
    output_path,  \* per request: local variable output_path
    intended,     \* per request: the outcome the operation chose
    observed,     \* per request: what left the handler
    waited,       \* per request: minutes since it saved its upload (saturating)
    loopPc,       \* cleanup task: "not_started", "pass", "sleep", "dead"
    sleepLeft,    \* cleanup task: minutes left of asyncio.sleep
    lastScan,     \* what the pass that just ran listed (until the clock moves)
    logged,       \* number of "Error during cleanup" lines (saturating)
    reclaimed     \* paths of running handlers that the cleanup task removed

vars == <<dir, dirExists, pc, endpoint, input_path, output_path,
          intended, observed, waited, loopPc, sleepLeft, lastScan, logged, reclaimed>>

reqVars == <<pc, endpoint, input_path, output_path, intended, observed, waited>>
loopVars == <<loopPc, sleepLeft, lastScan, logged, reclaimed>>

Empty == [f \in {} |-> 0]
NoOutcome == [kind |-> "none", status |-> 0, detail |-> ""]

Init ==
    /\ dir = Empty
    /\ dirExists = TRUE
    /\ pc = [r \in Reqs |-> "idle"]
    /\ endpoint = [r \in Reqs |-> "none"]
    /\ input_path = [r \in Reqs |-> Unbound]
    /\ output_path = [r \in Reqs |-> Unbound]
    /\ intended = [r \in Reqs |-> NoOutcome]
    /\ observed = [r \in Reqs |-> NoOutcome]
    /\ waited = [r \in Reqs |-> 0]
    /\ loopPc = "not_started"
    /\ sleepLeft = 0
    /\ lastScan = Empty
    /\ logged = 0
    /\ reclaimed = {}

\* ------------------------------------------------------------ file system
\* open(path, "wb") / pdf.save(path): the file now exists, created just now
Put(d, p) == [f \in (DOMAIN d) \cup {p} |-> IF f = p THEN 0 ELSE d[f]]

\* os.remove(path)
Remove(d, p) == [f \in (DOMAIN d) \ {p} |-> d[f]]

\* ------------------------------------------------------------- path issue
\* mutant: create_temp_file looks at TEMP_DIR first and gives no path when
\* the directory is gone
create_temp_file_checked(r, k) == IF dirExists THEN 2 * (r - 1) + k ELSE Unbound

\* create_temp_file: the path made from the k-th uuid4 value that request r
\* draws.  Two draws are taken never to give the same value.
create_temp_file(r, k) == 2 * (r - 1) + k

\* ----------------------------------------------------------- cleanup task
\* mutant: the age test made non-strict
IsStale_ge(age) == age >= RETENTION

\* mutant: the subtraction the wrong way round, file_time - current_time
IsStale_reversed(age) == (0 - age) > RETENTION

\* current_time - file_time > timedelta(minutes=10)
IsStale(age) == age > RETENTION

\* the for loop over os.listdir(TEMP_DIR): every entry is a regular file
RECURSIVE ScanFiles(_, _)
ScanFiles(names, d) ==
    IF names = {} THEN d
    ELSE LET filename == CHOOSE x \in names : TRUE
         IN ScanFiles(names \ {filename},
                      IF IsStale(d[filename]) THEN Remove(d, filename) ELSE d)

\* mutant: the pass without its try/except, the error ends the task
CleanupIteration_unhandled(d, exists) ==
    IF exists
    THEN [dir |-> ScanFiles(DOMAIN d, d), logged |-> FALSE, alive |-> TRUE]
    ELSE [dir |-> d, logged |-> FALSE, alive |-> FALSE]

\* one iteration of `while True`: the try block and its except clause.
\* os.listdir raises when TEMP_DIR is gone; the error is logged and the
\* task goes on to its sleep.
CleanupIteration(d, exists) ==
    IF exists
    THEN [dir |-> ScanFiles(DOMAIN d, d), logged |-> FALSE, alive |-> TRUE]
    ELSE [dir |-> d, logged |-> TRUE, alive |-> TRUE]

\* mutant: the task sleeps two intervals between passes
SleepTime_twice == 2 * CLEANUP_INTERVAL

\* await asyncio.sleep(CLEANUP_INTERVAL)
SleepTime == CLEANUP_INTERVAL

\* --------------------------------------------------------------- handlers
\* what the library or the Adobe service can answer, per endpoint
Results(ep) ==
    CASE ep = "unlock_pdf" -> {"ok", "PasswordError", "NotEncrypted", "PdfError", "Exception"}
      [] ep = "lock_pdf" -> {"ok", "AlreadyEncrypted", "Exception"}
      [] ep = "remove_pdf_links" -> {"ok", "Exception"}
      [] ep = "extract_text" -> {"ok", "Empty", "Exception"}
      [] OTHER -> {"ok", "False", "Exception"}

HTTPException(status, detail) == [kind |-> "HTTPException", status |-> status, detail |-> detail]
FileResponse == [kind |-> "FileResponse", status |-> 200, detail |-> ""]
UnboundLocalError == [kind |-> "UnboundLocalError", status |-> 500, detail |-> "output_path"]

\* the outcome the try block and its except clauses choose
Outcome(ep, res) ==
    CASE res = "ok" -> FileResponse
      [] res = "PasswordError" -> HTTPException(400, "Incorrect password for this PDF.")
      [] res = "NotEncrypted" -> HTTPException(400, "This PDF is not encrypted.")
      [] res = "PdfError" -> HTTPException(400, "PDF error")
      [] res = "AlreadyEncrypted" -> HTTPException(400, "PDF is already encrypted.")
      [] res = "False" -> HTTPException(500, "Adobe operation failed. Please try again.")
      [] res = "Empty" -> HTTPException(500, "Adobe text extraction failed. Please try again.")
      [] OTHER -> HTTPException(500, "Failed: " \o ep)

\* mutant: a bare os.remove(path), no existence test and no try/except
ReleasePath_unguarded(d, path) ==
    IF path \in DOMAIN d
    THEN [dir |-> Remove(d, path), raised |-> FALSE]
    ELSE [dir |-> d, raised |-> TRUE]

\* body of the cleanup loop of a finally block:
\*   if os.path.exists(path): try: os.remove(path) except: pass
ReleasePath(d, path) ==
    IF path \in DOMAIN d
    THEN [dir |-> Remove(d, path), raised |-> FALSE]
    ELSE [dir |-> d, raised |-> FALSE]

\* the finally block: `for path in [input_path, output_path]`.  Building the
\* list reads both locals; reading one that was never assigned raises
\* UnboundLocalError before any path is looked at.
Finally(d, ip, op) ==
    IF ip = Unbound \/ op = Unbound
    THEN [dir |-> d, raised |-> TRUE]
    ELSE LET a == ReleasePath(d, ip)
             b == ReleasePath(a.dir, op)
         IN [dir |-> b.dir, raised |-> a.raised \/ b.raised]

\* what leaves the handler: an exception raised in finally replaces the
\* return value or the exception that was on its way out
Leaves(out, fin) == IF fin.raised THEN UnboundLocalError ELSE out

\* the paths a request holds in its locals
Issued(r) == {input_path[r], output_path[r]} \ {Unbound}

PcAfter(obs) == IF obs.kind = "FileResponse" THEN "returned" ELSE "raised"

\* the server takes requests once startup is over, and it sends the response
\* of a finished handler before anything else runs
Quiet == \A q \in Reqs : pc[q] \notin {"returned", "raised"}
Serving == loopPc # "not_started" /\ Quiet

\* requests are numbered in the order they arrive
Arrives(r) == pc[r] = "idle" /\ \A q \in Reqs : q < r => pc[q] # "idle"

\* validate_pdf_file / validate_file_size / compression_level fail: the
\* HTTPException is raised before the try block, no path is issued
Reject(r, ep) ==
    /\ Serving
    /\ Arrives(r)
    /\ pc' = [pc EXCEPT ![r] = "raised"]
    /\ endpoint' = [endpoint EXCEPT ![r] = ep]
    /\ intended' = [intended EXCEPT ![r] = HTTPException(400, "Invalid upload.")]
    /\ observed' = [observed EXCEPT ![r] = HTTPException(400, "Invalid upload.")]
    /\ UNCHANGED <<dir, dirExists, input_path, output_path, waited, loopVars>>

\* unlock_pdf_legacy, lock_pdf_legacy, remove_pdf_links_legacy: no await,
\* the handler runs from its first line to the end of finally in one go
HandleLocal(r, ep, res) ==
    /\ Serving
    /\ Arrives(r)
    /\ ep \in LocalEndpoints
    /\ res \in Results(ep)
    /\ LET ip == create_temp_file(r, 1)
           op == create_temp_file(r, 2)
           d1 == IF dirExists THEN Put(dir, ip) ELSE dir
           eff == IF dirExists THEN res ELSE "Exception"
           d2 == IF eff = "ok" THEN Put(d1, op) ELSE d1
           out == Outcome(ep, eff)
           fin == Finally(d2, ip, op)
       IN /\ input_path' = [input_path EXCEPT ![r] = ip]
          /\ output_path' = [output_path EXCEPT ![r] = op]
          /\ dir' = fin.dir
          /\ intended' = [intended EXCEPT ![r] = out]
          /\ observed' = [observed EXCEPT ![r] = Leaves(out, fin)]
          /\ pc' = [pc EXCEPT ![r] = PcAfter(Leaves(out, fin))]
    /\ endpoint' = [endpoint EXCEPT ![r] = ep]
    /\ UNCHANGED <<dirExists, waited, loopVars>>

\* the Adobe handlers up to `await adobe_service...`: issue, save the upload
EnterAdobe(r, ep) ==
    /\ Serving
    /\ Arrives(r)
    /\ ep \in AdobeFileEndpoints \cup {"extract_text"}
    /\ LET ip == create_temp_file(r, 1)
           op == IF ep = "extract_text" THEN Unbound ELSE create_temp_file(r, 2)
           out == Outcome(ep, "Exception")
           fin == Finally(dir, ip, op)
       IN /\ input_path' = [input_path EXCEPT ![r] = ip]
          /\ output_path' = [output_path EXCEPT ![r] = op]
          /\ IF dirExists
             THEN /\ dir' = Put(dir, ip)
                  /\ pc' = [pc EXCEPT ![r] = "awaiting"]
                  /\ UNCHANGED <<intended, observed>>
             ELSE \* open(input_path, "wb") raises: except Exception, finally
                  /\ dir' = fin.dir
                  /\ intended' = [intended EXCEPT ![r] = out]
                  /\ observed' = [observed EXCEPT ![r] = Leaves(out, fin)]
                  /\ pc' = [pc EXCEPT ![r] = PcAfter(Leaves(out, fin))]
    /\ endpoint' = [endpoint EXCEPT ![r] = ep]
    /\ UNCHANGED <<dirExists, waited, loopVars>>

\* pdf-to-word, pdf-to-excel, compress-pdf, optimize-pdf after the await:
\* the service wrote output_path (res = "ok"), returned False or raised
ResumeAdobe(r, res) ==
    /\ Quiet
    /\ pc[r] = "awaiting"
    /\ endpoint[r] \in AdobeFileEndpoints
    /\ res \in Results(endpoint[r])
    /\ res = "ok" => dirExists
    /\ LET d2 == IF res = "ok" THEN Put(dir, output_path[r]) ELSE dir
           out == Outcome(endpoint[r], res)
           fin == Finally(d2, input_path[r], output_path[r])
       IN /\ dir' = fin.dir
          /\ intended' = [intended EXCEPT ![r] = out]
          /\ observed' = [observed EXCEPT ![r] = Leaves(out, fin)]
          /\ pc' = [pc EXCEPT ![r] = PcAfter(Leaves(out, fin))]
    /\ UNCHANGED <<dirExists, endpoint, input_path, output_path, waited, loopVars>>

\* adobe_extract_text after the await: output_path is assigned only when
\* the service returned text
ResumeExtract(r, res) ==
    /\ Quiet
    /\ pc[r] = "awaiting"
    /\ endpoint[r] = "extract_text"
    /\ res \in Results("extract_text")
    /\ LET op == IF res = "ok" THEN create_temp_file(r, 2) ELSE Unbound
           eff == IF res = "ok" /\ ~dirExists THEN "Exception" ELSE res
           d2 == IF eff = "ok" THEN Put(dir, op) ELSE dir
           out == Outcome("extract_text", eff)
           fin == Finally(d2, input_path[r], op)
       IN /\ output_path' = [output_path EXCEPT ![r] = op]
          /\ dir' = fin.dir
          /\ intended' = [intended EXCEPT ![r] = out]
          /\ observed' = [observed EXCEPT ![r] = Leaves(out, fin)]
          /\ pc' = [pc EXCEPT ![r] = PcAfter(Leaves(out, fin))]
    /\ UNCHANGED <<dirExists, endpoint, input_path, waited, loopVars>>

\* the server sends what left the handler (the FileResponse opens the file
\* named by path= only now) and the request is over: its locals are gone
Send(r) ==
    /\ pc[r] \in {"returned", "raised"}
    /\ pc' = [pc EXCEPT ![r] = "closed"]
    /\ endpoint' = [endpoint EXCEPT ![r] = "none"]
    /\ input_path' = [input_path EXCEPT ![r] = Unbound]
    /\ output_path' = [output_path EXCEPT ![r] = Unbound]
    /\ intended' = [intended EXCEPT ![r] = NoOutcome]
    /\ observed' = [observed EXCEPT ![r] = NoOutcome]
    /\ waited' = [waited EXCEPT ![r] = 0]
    /\ reclaimed' = reclaimed \ Issued(r)
    /\ UNCHANGED <<dir, dirExists, loopPc, sleepLeft, lastScan, logged>>

\* ------------------------------------------------------------ cleanup task
\* startup_event: asyncio.create_task(cleanup_temp_files())
Startup ==
    /\ loopPc = "not_started"
    /\ loopPc' = "pass"
    /\ UNCHANGED <<dir, dirExists, reqVars, sleepLeft, lastScan, logged, reclaimed>>

\* cleanup_temp_files: one pass and the start of the sleep that follows
Pass ==
    /\ Quiet
    /\ loopPc = "pass"
    /\ LET it == CleanupIteration(dir, dirExists)
       IN /\ dir' = it.dir
          /\ reclaimed' = reclaimed \cup
                (((DOMAIN dir) \ (DOMAIN it.dir)) \cap UNION {Issued(r) : r \in Reqs})
          /\ logged' = IF it.logged /\ logged < MaxLogged THEN logged + 1 ELSE logged
          /\ loopPc' = IF it.alive THEN "sleep" ELSE "dead"
    /\ lastScan' = IF dirExists THEN dir ELSE Empty
    /\ sleepLeft' = SleepTime
    /\ UNCHANGED <<dirExists, reqVars>>

\* TickMinutes pass: every file is that much older, the sleep that much
\* shorter, every handler at its await has waited that much longer; the task is due again when the sleep is over.  A due pass runs,
\* and a finished handler's response is sent, before the clock moves on.
Tick ==
    /\ Quiet
    /\ loopPc \in {"sleep", "dead"}
    /\ \A f \in DOMAIN dir : dir[f] < MaxAge
    /\ dir' = [f \in DOMAIN dir |-> dir[f] + TickMinutes]
    /\ IF loopPc = "sleep"
       THEN /\ sleepLeft' = IF sleepLeft > TickMinutes THEN sleepLeft - TickMinutes ELSE 0
            /\ loopPc' = IF sleepLeft' = 0 THEN "pass" ELSE "sleep"
       ELSE UNCHANGED <<sleepLeft, loopPc>>
    /\ lastScan' = Empty
    /\ waited' = [r \in Reqs |->
                     IF pc[r] = "awaiting" /\ waited[r] <= RETENTION
                     THEN waited[r] + TickMinutes
                     ELSE waited[r]]
    /\ UNCHANGED <<dirExists, pc, endpoint, input_path, output_path,
                   intended, observed, logged, reclaimed>>

\* the environment takes TEMP_DIR away (a tmp cleaner, an operator): the
\* program never creates it again
DirRemoved ==
    /\ Serving
    /\ dirExists
    /\ dirExists' = FALSE
    /\ dir' = Empty
    /\ UNCHANGED <<reqVars, loopVars>>

Next ==
    \/ Startup
    \/ Pass
    \/ Tick
    \/ DirRemoved
    \/ \E r \in Reqs, ep \in Endpoints : Reject(r, ep)
    \/ \E r \in Reqs, ep \in LocalEndpoints : \E res \in Results(ep) : HandleLocal(r, ep, res)
    \/ \E r \in Reqs, ep \in Endpoints : EnterAdobe(r, ep)
    \/ \E r \in Reqs, res \in {"ok", "False", "Exception"} : ResumeAdobe(r, res)
    \/ \E r \in Reqs, res \in {"ok", "Empty", "Exception"} : ResumeExtract(r, res)
    \/ \E r \in Reqs : Send(r)

Spec == Init /\ [][Next]_vars

TypeOK ==
    /\ DOMAIN dir \subseteq Paths
    /\ \A f \in DOMAIN dir : dir[f] \in 0..(MaxAge + TickMinutes)
    /\ loopPc \in {"not_started", "pass", "sleep", "dead"}
    /\ sleepLeft \in 0..CLEANUP_INTERVAL
    /\ \A r \in Reqs : waited[r] \in 0..(RETENTION + TickMinutes)
\* the scheduling the liveness claims rest on: the clock moves, the event
\* loop runs the cleanup task when it is due, the server sends responses
FairSpec ==
    /\ Spec
    /\ WF_vars(Tick)
    /\ WF_vars(Pass)
    /\ WF_vars(\E r \in Reqs : Send(r))

\* ------------------------------------------------------------------ claims
Finished(r) == pc[r] \in {"returned", "raised"}
\* finally got as far as its loop over the two paths
ReleaseRan(r) == Finished(r) /\ input_path[r] # Unbound /\ output_path[r] # Unbound

\* C1: when a handler that issued a path has finished, by return or by
\* exception, no file is left at any path it issued; and once every request
\* is over the scratch directory is empty.
C1_NoFileLeftBehind ==
    /\ \A r \in Reqs : Finished(r) => \A p \in Issued(r) : p \notin DOMAIN dir
    /\ (\A r \in Reqs : pc[r] = "closed") => DOMAIN dir = {}

\* C2: what leaves a finished handler is the outcome the operation chose;
\* the cleanup step never puts an error of its own in its place.
C2_OutcomeNotMasked ==
    \A r \in Reqs : Finished(r) => observed[r] = intended[r]

\* C3: when a handler has returned a file response and the server is about
\* to send it, the output file named in the response still exists.
C3_FileThereWhenSent ==
    \A r \in Reqs : pc[r] = "returned" => output_path[r] \in DOMAIN dir

\* C5: one pass over an existing scratch directory removes exactly the
\* files whose age strictly exceeds the retention threshold and leaves every
\* other file as it was.
C5_PassRemovesExactlyStale ==
    [][(loopPc = "pass" /\ loopPc' # "pass" /\ dirExists) =>
          /\ DOMAIN dir' \subseteq DOMAIN dir
          /\ \A f \in DOMAIN dir :
                /\ (f \in DOMAIN dir') <=> (dir[f] <= RETENTION)
                /\ (f \in DOMAIN dir') => dir'[f] = dir[f]]_vars

\* a pass has just removed a file one tick over the threshold and kept a
\* file aged exactly the threshold
C5_Witness ==
    /\ loopPc = "sleep"
    /\ \E f, g \in DOMAIN lastScan :
          /\ lastScan[f] = RETENTION + TickMinutes
          /\ f \notin DOMAIN dir
          /\ lastScan[g] = RETENTION
          /\ g \in DOMAIN dir

\* a file no running handler will release any more
Leaked(p) ==
    /\ p \in DOMAIN dir
    /\ \A r \in Reqs : pc[r] = "awaiting" => input_path[r] # p

\* C6: a file that was written and that no handler will release is
\* eventually removed, whatever else is in the directory or running: time
\* and again the directory holds no such file.  (A leaked file stays leaked
\* until it is removed, so this says of each one that it is removed.)
C6_LeakEventuallyReclaimed ==
    []<>(\A p \in Paths : ~Leaked(p))

\* the pass that just ran removed a stale file that no request owned
C6_Witness ==
    /\ loopPc = "sleep"
    /\ dirExists
    /\ \E p \in DOMAIN lastScan :
          /\ IsStale(lastScan[p])
          /\ p \notin DOMAIN dir
          /\ \A r \in Reqs : p \notin Issued(r)

\* C7 as stated: no file of the scratch directory is ever older than the
\* retention threshold.
C7_NeverOlderThanRetention ==
    \A f \in DOMAIN dir : dir[f] <= RETENTION

\* C7 amended: right after a pass no file is older than the retention
\* threshold, and at no time is a file older than the threshold plus the
\* interval between passes.
C7_AgeBound ==
    /\ \A f \in DOMAIN dir : dir[f] <= RETENTION + CLEANUP_INTERVAL
    /\ (loopPc = "sleep" /\ sleepLeft = CLEANUP_INTERVAL) =>
          \A f \in DOMAIN dir : dir[f] <= RETENTION

\* a file has reached the threshold plus the interval
C7_Witness ==
    \E f \in DOMAIN dir : dir[f] = RETENTION + CLEANUP_INTERVAL

\* C8: every pass, failed or not, is followed by a sleep of the interval
\* and the task is never ended by it; a failed pass logs its error.
C8_LoopSurvivesErrors ==
    [][(loopPc = "pass" /\ loopPc' # "pass") =>
          /\ loopPc' = "sleep"
          /\ sleepLeft' = CLEANUP_INTERVAL
          /\ (~dirExists /\ logged < MaxLogged) => logged' = logged + 1]_vars

\* a pass failed, the task slept, the next pass failed, the task sleeps
C8_Witness ==
    /\ logged = 2
    /\ loopPc = "sleep"

\* C9: a handler whose release step and the cleanup task both went for the
\* same path finishes with the outcome its operation chose, the task is
\* still running and no file is left at the path.
C9_RaceTolerated ==
    \A r \in Reqs :
        (ReleaseRan(r) /\ Issued(r) \cap reclaimed # {}) =>
            /\ observed[r] = intended[r]
            /\ loopPc \in {"pass", "sleep"}
            /\ \A p \in Issued(r) : p \notin DOMAIN dir

\* a handler came back from a long await, found its input removed by the
\* cleanup task and released its paths
C9_Witness ==
    \E r \in Reqs :
        /\ ReleaseRan(r)
        /\ input_path[r] \in reclaimed
        /\ observed[r] = intended[r]

\* C10: releasing any issued path, once or twice in a row, raises nothing;
\* the second release, and a release of a path without a file, leave the
\* directory as it is.
C10_ReleaseIdempotent ==
    \A r \in Reqs : \A p \in Issued(r) :
        LET once == ReleasePath(dir, p)
            twice == ReleasePath(once.dir, p)
        IN /\ ~once.raised
           /\ ~twice.raised
           /\ twice.dir = once.dir
           /\ p \notin DOMAIN dir => once.dir = dir
           /\ p \notin DOMAIN once.dir

\* a handler has released an output path at which no file was ever created
C10_Witness ==
    \E r \in Reqs :
        /\ ReleaseRan(r)
        /\ intended[r].kind = "HTTPException"
        /\ observed[r] = intended[r]
        /\ dirExists

\* a step in which request r gets past validation and into its try block,
\* where it calls create_temp_file
Enters(r) ==
    /\ pc[r] = "idle"
    /\ pc'[r] # "idle"
    /\ intended'[r] # HTTPException(400, "Invalid upload.")

\* C11 as stated: with the scratch directory unavailable the issue of a
\* path fails and the request gets no path; with the directory available
\* it gets one.
C11_IssueFailsWhenUnavailable ==
    [][\A r \in Reqs : Enters(r) =>
          /\ dirExists => input_path'[r] # Unbound
          /\ ~dirExists => (input_path'[r] = Unbound /\ output_path'[r] = Unbound)]_vars

\* C11 amended: the issue of a path never fails, the request holds a path
\* whether or not the scratch directory is available; with the directory
\* unavailable no file comes to exist at the path and the operation fails
\* at its first write, choosing a 500 failure.
C11_IssueNeverFails ==
    [][\A r \in Reqs : Enters(r) =>
          /\ input_path'[r] \in Paths
          /\ ~dirExists =>
                /\ input_path'[r] \notin DOMAIN dir'
                /\ intended'[r].kind = "HTTPException"
                /\ intended'[r].status = 500]_vars

\* a local handler ran with the directory gone: it holds both paths and
\* chose a 500 failure
C11_Witness ==
    \E r \in Reqs :
        /\ Finished(r)
        /\ ~dirExists
        /\ endpoint[r] \in LocalEndpoints
        /\ input_path[r] # Unbound
        /\ output_path[r] # Unbound
        /\ intended[r].status = 500

\* request r saved its upload and has not yet had its response sent
InFlight(r) == pc[r] = "awaiting" \/ (Finished(r) /\ input_path[r] # Unbound)

\* C12: the cleanup task does not take a file from a request that is over
\* within the retention threshold.  While a request is in flight and no more
\* than the threshold has passed since it saved its upload, the cleanup task
\* has removed none of its files, and at its await the upload is still in
\* the scratch directory; a file of an in-flight request that the task did
\* remove belongs to a request that has waited longer than the threshold.
C12_NotReclaimedWithinRetention ==
    \A r \in Reqs :
        /\ (InFlight(r) /\ waited[r] <= RETENTION) => Issued(r) \cap reclaimed = {}
        /\ (pc[r] = "awaiting" /\ waited[r] <= RETENTION /\ dirExists) =>
               /\ input_path[r] \in DOMAIN dir
               /\ dir[input_path[r]] = waited[r]

\* a pass listed the upload of a waiting request at an age of exactly the
\* threshold and kept it; the request then finished with its file response
\* and released the upload itself
C12_Witness ==
    \E r \in Reqs :
        /\ Finished(r)
        /\ intended[r] = FileResponse
        /\ waited[r] = RETENTION
        /\ input_path[r] \in DOMAIN lastScan
        /\ lastScan[input_path[r]] = RETENTION
        /\ input_path[r] \notin reclaimed
        /\ dirExists
====
